---- MODULE Spec2Model ----
(***************************************************************************)
(* monosi: the metric compiler of monitors/table_metrics.py.               *)
(*                                                                         *)
(* Strings are sequences of one-character strings, so that lower(),        *)
(* split("__"), format() and join() are computed character by character.   *)
(* A Python dict is a sequence of <<key, value>> pairs in insertion order. *)
(* A Metric object is identified by its index in MetricCompiler.metrics.   *)
(***************************************************************************)
EXTENDS Integers, Sequences, FiniteSets, TLC

VARIABLES
    metrics,       \* MetricCompiler.metrics: sequence of Metric records
    query,         \* the SQL text returned by the last build_query
    columns,       \* the column list given to the last build_query
    monitor,       \* the monitor given to the last build_query
    results,       \* the result set returned by driver.execute_sql
    outcome,       \* last call on the compiler: its name, exception, return value
    ninterp,       \* interpret_results calls since the last build_query
    first_values,  \* the metrics' values after the first interpret since the build
    column_in,     \* alias codec: column name of the Metric under test
    type_in,       \* alias codec: metric type of the Metric under test
    alias_in,      \* alias codec: the alias handed to parse_alias
    parsed         \* alias codec: what parse_alias returned or raised

vars == <<metrics, query, columns, monitor, results, outcome, ninterp,
          first_values, column_in, type_in, alias_in, parsed>>

compiler_vars == <<metrics, query, columns, monitor, results, outcome,
                   ninterp, first_values>>

codec_vars == <<column_in, type_in, alias_in, parsed>>

----------------------------------------------------------------------------
(* Bounds of the model.                                                    *)

MaxCols == 2

MaxRows == 2

MaxInterp == 2

MaxNameLen == 3

MaxAliasLen == 7

----------------------------------------------------------------------------
(* Strings.                                                                *)

UpperLetters ==
    <<"A", "B", "C", "D", "E", "F", "G", "H", "I", "J", "K", "L", "M",
      "N", "O", "P", "Q", "R", "S", "T", "U", "V", "W", "X", "Y", "Z">>

LowerLetters ==
    <<"a", "b", "c", "d", "e", "f", "g", "h", "i", "j", "k", "l", "m",
      "n", "o", "p", "q", "r", "s", "t", "u", "v", "w", "x", "y", "z">>

LowerOf == [c \in {UpperLetters[i] : i \in 1..26} |->
              LowerLetters[CHOOSE i \in 1..26 : UpperLetters[i] = c]]

\* str.lower() on one character
LowerChar(c) == IF c \in DOMAIN LowerOf THEN LowerOf[c] ELSE c

\* the sequence f, with every element worked out once
Tuple(f) == f \o <<>>

RECURSIVE FoldRange(_, _, _, _)
\* a loop: Op(...Op(Op(acc, lo), lo + 1)..., hi), by halves, the first half
\* worked out before the second starts, so that the evaluation stays shallow
FoldRange(Op(_, _), acc, lo, hi) ==
    IF lo > hi THEN acc
    ELSE IF lo = hi THEN Op(acc, lo)
    ELSE LET mid == (lo + hi) \div 2
         IN  CHOOSE result \in {FoldRange(Op, half, mid + 1, hi) :
                                  half \in {FoldRange(Op, acc, lo, mid)}} : TRUE

\* str.lower()
Lower(s) == Tuple([i \in 1..Len(s) |-> LowerChar(s[i])])

\* sep occurs in s starting at position i
OccursAt(s, sep, i) ==
    /\ i + Len(sep) - 1 <= Len(s)
    /\ SubSeq(s, i, i + Len(sep) - 1) = sep

\* sep in s
Contains(s, sep) == \E i \in 1..Len(s) : OccursAt(s, sep, i)

\* the positions from start on at which sep occurs in s
Occurrences(s, sep, start) == {i \in start..Len(s) : OccursAt(s, sep, i)}

RECURSIVE SplitFrom(_, _, _)
\* the parts of s from position start on, cut at each leftmost occurrence of
\* sep that does not overlap the one before it
SplitFrom(s, sep, start) ==
    LET found == Occurrences(s, sep, start)
    IN  IF found = {}
        THEN <<SubSeq(s, start, Len(s))>>
        ELSE LET i == CHOOSE j \in found : \A other \in found : j <= other
             IN  <<SubSeq(s, start, i - 1)>> \o SplitFrom(s, sep, i + Len(sep))

\* str.split(sep)
Split(s, sep) == SplitFrom(s, sep, 1)

RECURSIVE ConcatRange(_, _, _)
ConcatRange(ss, lo, hi) ==
    IF lo > hi THEN <<>>
    ELSE IF lo = hi THEN ss[lo]
    ELSE LET mid == (lo + hi) \div 2
         IN  ConcatRange(ss, lo, mid) \o ConcatRange(ss, mid + 1, hi)

\* the concatenation of a sequence of strings
Concat(ss) == ConcatRange(ss, 1, Len(ss))

\* sep.join(ss)
Join(sep, ss) ==
    Concat(Tuple([i \in 1..Len(ss) |-> IF i = 1 THEN ss[i] ELSE sep \o ss[i]]))

\* str.format(): every replacement field of the template (one element of the
\* sequence, "{}" or "{name}") is replaced by the string bound to it
Format(template, binding) ==
    Concat(Tuple([i \in 1..Len(template) |->
                    IF template[i] \in DOMAIN binding
                    THEN binding[template[i]]
                    ELSE <<template[i]>>]))

\* key in dict, for a dict kept as a sequence of <<key, value>> pairs
HasKey(dict, key) == \E i \in 1..Len(dict) : dict[i][1] = key

\* dict[key]
Get(dict, key) == dict[CHOOSE i \in 1..Len(dict) : dict[i][1] = key][2]

\* dict.keys()
Keys(dict) == Tuple([i \in 1..Len(dict) |-> dict[i][1]])

\* dict[key] = value: a new key goes to the end, an old key keeps its place
Put(dict, key, value) ==
    IF HasKey(dict, key)
    THEN Tuple([i \in 1..Len(dict) |->
                  IF dict[i][1] = key THEN <<key, value>> ELSE dict[i]])
    ELSE Append(dict, <<key, value>>)

----------------------------------------------------------------------------
(* class MetricType                                                        *)

MetricType ==
    {"COMPLETENESS", "APPROX_DISTINCT_COUNT", "APPROX_DISTINCTNESS", "MEAN_LENGTH",
     "MAX_LENGTH", "MIN_LENGTH", "STD_LENGTH", "TEXT_INT_RATE", "TEXT_NUMBER_RATE",
     "TEXT_UUID_RATE", "TEXT_ALL_SPACES_RATE", "TEXT_NULL_KEYWORD_RATE", "ZERO_RATE",
     "NEGATIVE_RATE", "NUMERIC_MEAN", "NUMERIC_MIN", "NUMERIC_MAX", "NUMERIC_STD"}

\* the column data types: the two default_for names, and one it does not name
ColumnDataType == {"STRING", "INTEGER", "BOOLEAN"}

\* a plausible slip: the last string metric type is left out
string_types_short ==
    <<"COMPLETENESS", "APPROX_DISTINCT_COUNT", "APPROX_DISTINCTNESS", "MEAN_LENGTH",
      "MAX_LENGTH", "MIN_LENGTH", "STD_LENGTH", "TEXT_INT_RATE", "TEXT_NUMBER_RATE",
      "TEXT_UUID_RATE", "TEXT_ALL_SPACES_RATE">>

string_types ==
    <<"COMPLETENESS", "APPROX_DISTINCT_COUNT", "APPROX_DISTINCTNESS", "MEAN_LENGTH",
      "MAX_LENGTH", "MIN_LENGTH", "STD_LENGTH", "TEXT_INT_RATE", "TEXT_NUMBER_RATE",
      "TEXT_UUID_RATE", "TEXT_ALL_SPACES_RATE", "TEXT_NULL_KEYWORD_RATE">>

number_types ==
    <<"COMPLETENESS", "ZERO_RATE", "NEGATIVE_RATE", "APPROX_DISTINCTNESS",
      "NUMERIC_MEAN", "NUMERIC_MIN", "NUMERIC_MAX", "NUMERIC_STD">>

default_for(column_data_type) ==
    IF column_data_type = "STRING" THEN string_types
    ELSE IF column_data_type = "INTEGER" THEN number_types
    ELSE <<>>

MetricTypeValue(metric_type) ==
    CASE metric_type = "COMPLETENESS" -> <<"c", "o", "m", "p", "l", "e", "t", "e", "n", "e", "s", "s">>
      [] metric_type = "APPROX_DISTINCT_COUNT" -> <<"a", "p", "p", "r", "o", "x", "_", "d", "i", "s", "t", "i", "n", "c", "t", "_", "c", "o", "u", "n", "t">>
      [] metric_type = "APPROX_DISTINCTNESS" -> <<"a", "p", "p", "r", "o", "x", "_", "d", "i", "s", "t", "i", "n", "c", "t", "n", "e", "s", "s">>
      [] metric_type = "MEAN_LENGTH" -> <<"m", "e", "a", "n", "_", "l", "e", "n", "g", "t", "h">>
      [] metric_type = "MAX_LENGTH" -> <<"m", "a", "x", "_", "l", "e", "n", "g", "t", "h">>
      [] metric_type = "MIN_LENGTH" -> <<"m", "i", "n", "_", "l", "e", "n", "g", "t", "h">>
      [] metric_type = "STD_LENGTH" -> <<"s", "t", "d", "_", "l", "e", "n", "g", "t", "h">>
      [] metric_type = "TEXT_INT_RATE" -> <<"t", "e", "x", "t", "_", "i", "n", "t", "_", "r", "a", "t", "e">>
      [] metric_type = "TEXT_NUMBER_RATE" -> <<"t", "e", "x", "t", "_", "n", "u", "m", "b", "e", "r", "_", "r", "a", "t", "e">>
      [] metric_type = "TEXT_UUID_RATE" -> <<"t", "e", "x", "t", "_", "u", "u", "i", "d", "_", "r", "a", "t", "e">>
      [] metric_type = "TEXT_ALL_SPACES_RATE" -> <<"t", "e", "x", "t", "_", "a", "l", "l", "_", "s", "p", "a", "c", "e", "s", "_", "r", "a", "t", "e">>
      [] metric_type = "TEXT_NULL_KEYWORD_RATE" -> <<"t", "e", "x", "t", "_", "n", "u", "l", "l", "_", "k", "e", "y", "w", "o", "r", "d", "_", "r", "a", "t", "e">>
      [] metric_type = "ZERO_RATE" -> <<"z", "e", "r", "o", "_", "r", "a", "t", "e">>
      [] metric_type = "NEGATIVE_RATE" -> <<"n", "e", "g", "a", "t", "i", "v", "e", "_", "r", "a", "t", "e">>
      [] metric_type = "NUMERIC_MEAN" -> <<"n", "u", "m", "e", "r", "i", "c", "_", "m", "e", "a", "n">>
      [] metric_type = "NUMERIC_MIN" -> <<"n", "u", "m", "e", "r", "i", "c", "_", "m", "i", "n">>
      [] metric_type = "NUMERIC_MAX" -> <<"n", "u", "m", "e", "r", "i", "c", "_", "m", "a", "x">>
      [] metric_type = "NUMERIC_STD" -> <<"n", "u", "m", "e", "r", "i", "c", "_", "s", "t", "d">>

completeness ==
    <<"C", "O", "U", "N", "T", "(", "{}", ")", " ", "/", " ", "C", "A", "S", "T", "(", "C",
      "O", "U", "N", "T", "(", "*", ")", " ", "A", "S", " ", "N", "U", "M", "E", "R", "I", "C",
      ")">>

approx_distinct_count ==
    <<"C", "O", "U", "N", "T", "(", "D", "I", "S", "T", "I", "N", "C", "T", " ", "{}", ")">>

approx_distinctness ==
    <<"C", "O", "U", "N", "T", "(", "D", "I", "S", "T", "I", "N", "C", "T", " ", "{}", ")",
      " ", "/", " ", "C", "A", "S", "T", "(", "C", "O", "U", "N", "T", "(", "*", ")", " ", "A",
      "S", " ", "N", "U", "M", "E", "R", "I", "C", ")">>

mean_length ==
    <<"A", "V", "G", "(", "L", "E", "N", "G", "T", "H", "(", "{}", ")", ")">>

max_length ==
    <<"M", "A", "X", "(", "L", "E", "N", "G", "T", "H", "(", "{}", ")", ")">>

min_length ==
    <<"M", "I", "N", "(", "L", "E", "N", "G", "T", "H", "(", "{}", ")", ")">>

std_length ==
    <<"S", "T", "D", "D", "E", "V", "(", "C", "A", "S", "T", "(", "L", "E", "N", "G", "T", "H",
      "(", "{}", ")", " ", "a", "s", " ", "d", "o", "u", "b", "l", "e", ")", ")">>

text_int_rate ==
    <<"S", "U", "M", "(", "I", "F", "F", "(", "R", "E", "G", "E", "X", "P", "_", "C", "O", "U",
      "N", "T", "(", "T", "O", "_", "V", "A", "R", "C", "H", "A", "R", "(", "{}", ")", ",",
      " ", "'", "^", "(", "[", "-", "+", "]", "?", "[", "0", "-", "9", "]", "+", ")", "$", "'",
      ",", " ", "1", ",", " ", "'", "i", "'", ")", " ", "!", "=", " ", "0", ",", " ", "1", ",",
      " ", "0", ")", ")", " ", "/", " ", "C", "A", "S", "T", "(", "C", "O", "U", "N", "T", "(",
      "*", ")", " ", "A", "S", " ", "N", "U", "M", "E", "R", "I", "C", ")">>

text_number_rate ==
    <<"S", "U", "M", "(", "I", "F", "F", "(", "R", "E", "G", "E", "X", "P", "_", "C", "O", "U",
      "N", "T", "(", "T", "O", "_", "V", "A", "R", "C", "H", "A", "R", "(", "{}", ")", ",",
      " ", "'", "^", "(", "[", "-", "+", "]", "?", "[", "0", "-", "9", "]", "*", "[", ".", "]",
      "?", "[", "0", "-", "9", "]", "+", "(", "[", "e", "E", "]", "[", "-", "+", "]", "?", "[",
      "0", "-", "9", "]", "+", ")", "?", ")", "$", "'", ",", " ", "1", ",", " ", "'", "i", "'",
      ")", " ", "!", "=", " ", "0", ",", " ", "1", ",", " ", "0", ")", ")", " ", "/", " ", "C",
      "A", "S", "T", "(", "C", "O", "U", "N", "T", "(", "*", ")", " ", "A", "S", " ", "N", "U",
      "M", "E", "R", "I", "C", ")">>

text_uuid_rate ==
    <<"S", "U", "M", "(", "I", "F", "F", "(", "R", "E", "G", "E", "X", "P", "_", "C", "O", "U",
      "N", "T", "(", "T", "O", "_", "V", "A", "R", "C", "H", "A", "R", "(", "{}", ")", ",",
      " ", "'", "^", "(", "[", "0", "-", "9", "a", "-", "f", "A", "-", "F", "]", "{", "8", "}",
      "-", "[", "0", "-", "9", "a", "-", "f", "A", "-", "F", "]", "{", "4", "}", "-", "[", "0",
      "-", "9", "a", "-", "f", "A", "-", "F", "]", "{", "4", "}", "-", "[", "0", "-", "9", "a",
      "-", "f", "A", "-", "F", "]", "{", "4", "}", "-", "[", "0", "-", "9", "a", "-", "f", "A",
      "-", "F", "]", "{", "1", "2", "}", ")", "$", "'", ",", " ", "1", ",", " ", "'", "i", "'",
      ")", " ", "!", "=", " ", "0", ",", " ", "1", ",", " ", "0", ")", ")", " ", "/", " ", "C",
      "A", "S", "T", "(", "C", "O", "U", "N", "T", "(", "*", ")", " ", "A", "S", " ", "N", "U",
      "M", "E", "R", "I", "C", ")">>

text_all_spaces_rate ==
    <<"S", "U", "M", "(", "I", "F", "F", "(", "R", "E", "G", "E", "X", "P", "_", "C", "O", "U",
      "N", "T", "(", "T", "O", "_", "V", "A", "R", "C", "H", "A", "R", "(", "{}", ")", ",",
      " ", "'", "^", "(", "\\", "\\", "s", "+", ")", "$", "'", ",", " ", "1", ",", " ", "'",
      "i", "'", ")", " ", "!", "=", " ", "0", ",", " ", "1", ",", " ", "0", ")", ")", " ", "/",
      " ", "C", "A", "S", "T", "(", "C", "O", "U", "N", "T", "(", "*", ")", " ", "A", "S", " ",
      "N", "U", "M", "E", "R", "I", "C", ")">>

text_null_keyword_rate ==
    <<"S", "U", "M", "(", "I", "F", "F", "(", "U", "P", "P", "E", "R", "(", "{}", ")", " ",
      "I", "N", " ", "(", "'", "N", "U", "L", "L", "'", ",", " ", "'", "N", "O", "N", "E", "'",
      ",", " ", "'", "N", "I", "L", "'", ",", " ", "'", "N", "O", "T", "H", "I", "N", "G", "'",
      ")", ",", " ", "1", ",", " ", "0", ")", ")", " ", "/", " ", "C", "A", "S", "T", "(", "C",
      "O", "U", "N", "T", "(", "*", ")", " ", "A", "S", " ", "N", "U", "M", "E", "R", "I", "C",
      ")">>

zero_rate ==
    <<"S", "U", "M", "(", "I", "F", "F", "(", "U", "P", "P", "E", "R", "(", "{}", ")", " ",
      "I", "N", " ", "(", "'", "N", "U", "L", "L", "'", ",", " ", "'", "N", "O", "N", "E", "'",
      ",", " ", "'", "N", "I", "L", "'", ",", " ", "'", "N", "O", "T", "H", "I", "N", "G", "'",
      ")", ",", " ", "1", ",", " ", "0", ")", ")", " ", "/", " ", "C", "A", "S", "T", "(", "C",
      "O", "U", "N", "T", "(", "*", ")", " ", "A", "S", " ", "N", "U", "M", "E", "R", "I", "C",
      ")">>

negative_rate ==
    <<"S", "U", "M", "(", "I", "F", "F", "(", "{}", " ", "<", " ", "0", ",", " ", "1", ",",
      " ", "0", ")", ")", " ", "/", " ", "C", "A", "S", "T", "(", "C", "O", "U", "N", "T", "(",
      "*", ")", " ", "A", "S", " ", "N", "U", "M", "E", "R", "I", "C", ")">>

numeric_mean ==
    <<"A", "V", "G", "(", "{}", ")">>

numeric_min ==
    <<"M", "I", "N", "(", "{}", ")">>

numeric_max ==
    <<"M", "A", "X", "(", "{}", ")">>

numeric_std ==
    <<"S", "T", "D", "D", "E", "V", "(", "C", "A", "S", "T", "(", "{}", " ", "a", "s", " ",
      "d", "o", "u", "b", "l", "e", ")", ")">>

BASE_SQL ==
    <<"\n", " ", " ", " ", " ", "S", "E", "L", "E", "C", "T", " ", "\n", " ", " ", " ", " ",
      " ", " ", " ", " ", "D", "A", "T", "E", "_", "T", "R", "U", "N", "C", "(", "'", "H", "O",
      "U", "R", "'", ",", " ", "{timestamp_field}", ")", " ", "a", "s", " ", "w", "i", "n",
      "d", "o", "w", "_", "s", "t", "a", "r", "t", ",", " ", "\n", " ", " ", " ", " ", " ",
      " ", " ", " ", "D", "A", "T", "E", "A", "D", "D", "(", "h", "r", ",", " ", "1", ",", " ",
      "D", "A", "T", "E", "_", "T", "R", "U", "N", "C", "(", "'", "H", "O", "U", "R", "'", ",",
      " ", "{timestamp_field}", ")", ")", " ", "a", "s", " ", "w", "i", "n", "d", "o", "w",
      "_", "e", "n", "d", ",", " ", "\n", "\n", " ", " ", " ", " ", " ", " ", " ", " ", "C",
      "O", "U", "N", "T", "(", "*", ")", " ", "a", "s", " ", "r", "o", "w", "_", "c", "o", "u",
      "n", "t", ",", " ", "\n", "\n", " ", " ", " ", " ", " ", " ", " ", " ", "{metric_sql}",
      "\n", "\n", " ", " ", " ", " ", "F", "R", "O", "M", " ", "{table}", "\n", " ", " ", " ",
      " ", "W", "H", "E", "R", "E", " ", "\n", " ", " ", " ", " ", " ", " ", " ", " ", "D",
      "A", "T", "E", "_", "T", "R", "U", "N", "C", "(", "'", "H", "O", "U", "R", "'", ",", " ",
      "{timestamp_field}", ")", " ", ">", "=", " ", "D", "A", "T", "E", "A", "D", "D", "(",
      "d", "a", "y", ",", " ", "{days_ago}", ",", " ", "C", "U", "R", "R", "E", "N", "T", "_",
      "T", "I", "M", "E", "S", "T", "A", "M", "P", "(", ")", ")", " ", "\n", " ", " ", " ",
      " ", "G", "R", "O", "U", "P", " ", "B", "Y", " ", "w", "i", "n", "d", "o", "w", "_", "s",
      "t", "a", "r", "t", ",", " ", "w", "i", "n", "d", "o", "w", "_", "e", "n", "d", " ",
      "\n", " ", " ", " ", " ", "O", "R", "D", "E", "R", " ", "B", "Y", " ", "w", "i", "n",
      "d", "o", "w", "_", "s", "t", "a", "r", "t", " ", "A", "S", "C", ";", "\n", " ", " ",
      " ", " ">>

----------------------------------------------------------------------------
(* class Metric                                                            *)

\* what a call did: the exception it raised ("none" when it returned) and the
\* value it returned
Returned(v) == [raised |-> "none", value |-> v]

Raised(e, v) == [raised |-> e, value |-> v]

Metric(table_name, column_name, metric_type, values) ==
    [table_name |-> table_name, column_name |-> column_name,
     metric_type |-> metric_type, values |-> values]

METRIC_COLUMN == <<"{sql}", " ", "A", "S", " ", "{alias}">>

SEPARATOR == <<"_", "_">>

\* a plausible slip: one underscore between the column and the metric name
alias_one_underscore(metric) ==
    Format(<<"{0}", "_", "{1}">>,
           ("{0}" :> metric.column_name) @@ ("{1}" :> MetricTypeValue(metric.metric_type)))

\* "{}__{}".format(self.column_name, self.metric_type.value)
alias(metric) ==
    Format(<<"{0}", "_", "_", "{1}">>,
           ("{0}" :> metric.column_name) @@ ("{1}" :> MetricTypeValue(metric.metric_type)))

retrieve_unformatted_sql(metric_type) ==
    CASE metric_type = "COMPLETENESS" -> completeness
      [] metric_type = "APPROX_DISTINCT_COUNT" -> approx_distinct_count
      [] metric_type = "APPROX_DISTINCTNESS" -> approx_distinctness
      [] metric_type = "MEAN_LENGTH" -> mean_length
      [] metric_type = "MAX_LENGTH" -> max_length
      [] metric_type = "MIN_LENGTH" -> min_length
      [] metric_type = "STD_LENGTH" -> std_length
      [] metric_type = "TEXT_INT_RATE" -> text_int_rate
      [] metric_type = "TEXT_NUMBER_RATE" -> text_number_rate
      [] metric_type = "TEXT_UUID_RATE" -> text_uuid_rate
      [] metric_type = "TEXT_ALL_SPACES_RATE" -> text_all_spaces_rate
      [] metric_type = "TEXT_NULL_KEYWORD_RATE" -> text_null_keyword_rate
      [] metric_type = "ZERO_RATE" -> zero_rate
      [] metric_type = "NEGATIVE_RATE" -> negative_rate
      [] metric_type = "NUMERIC_MEAN" -> numeric_mean
      [] metric_type = "NUMERIC_MIN" -> numeric_mean
      [] metric_type = "NUMERIC_MAX" -> numeric_max
      [] metric_type = "NUMERIC_STD" -> numeric_std

\* Metric.sql()
sql(metric) ==
    LET unformatted_sql == retrieve_unformatted_sql(metric.metric_type)
        formatted_sql == Format(unformatted_sql, "{}" :> metric.column_name)
    IN  Format(METRIC_COLUMN, ("{sql}" :> formatted_sql) @@ ("{alias}" :> alias(metric)))

\* a plausible slip: fewer than two parts is refused, more than two is not
parse_alias_at_least_two(alias_str) ==
    LET parts == Split(Lower(alias_str), SEPARATOR)
    IN  IF Len(parts) < 2
        THEN Raised("Exception", <<>>)
        ELSE Returned(<<Lower(parts[1]), Lower(parts[2])>>)

\* Metric.parse_alias(alias): (column_name, metric_name), or raises Exception
parse_alias(alias_str) ==
    LET parts == Split(Lower(alias_str), SEPARATOR)
    IN  IF Len(parts) # 2
        THEN Raised("Exception", <<>>)
        ELSE Returned(<<Lower(parts[1]), Lower(parts[2])>>)

----------------------------------------------------------------------------
(* Cell values of a result row and float().                                *)
(* A cell is None, a str or an int; a float is the decimal m / 10^e with   *)
(* no trailing zero in its fraction, so that 1.0 and 1 are the same float. *)

NoneCell == [t |-> "None", s |-> <<>>, n |-> 0]

StrCell(s) == [t |-> "str", s |-> s, n |-> 0]

IntCell(n) == [t |-> "int", s |-> <<>>, n |-> n]

NoneValue == [t |-> "None", m |-> 0, e |-> 0]

RECURSIVE Normal(_, _)
Normal(m, e) ==
    IF e > 0 /\ m % 10 = 0 THEN Normal(m \div 10, e - 1) ELSE [t |-> "float", m |-> m, e |-> e]

Digits == <<"0", "1", "2", "3", "4", "5", "6", "7", "8", "9">>

IsDigit(c) == \E d \in 1..10 : Digits[d] = c

DigitValue(c) == (CHOOSE d \in 1..10 : Digits[d] = c) - 1

RECURSIVE DigitsValue(_, _)
\* the number written by the digits of s, read after the digits worth acc
DigitsValue(s, acc) ==
    IF s = <<>> THEN acc ELSE DigitsValue(Tail(s), 10 * acc + DigitValue(Head(s)))

\* float(str) for a string of sign, digits and point; any other text raises
FloatOfStr(s) ==
    LET signed == s # <<>> /\ Head(s) \in {"-", "+"}
        body == IF signed THEN Tail(s) ELSE s
        dots == {i \in 1..Len(body) : body[i] = "."}
        whole == IF dots = {} THEN body
                 ELSE SubSeq(body, 1, (CHOOSE i \in dots : TRUE) - 1)
        frac == IF dots = {} THEN <<>>
                ELSE SubSeq(body, (CHOOSE i \in dots : TRUE) + 1, Len(body))
        wellformed ==
            /\ Cardinality(dots) <= 1
            /\ Len(whole) + Len(frac) >= 1
            /\ \A i \in 1..Len(whole) : IsDigit(whole[i])
            /\ \A i \in 1..Len(frac) : IsDigit(frac[i])
        magnitude == DigitsValue(whole \o frac, 0)
    IN  IF ~wellformed THEN Raised("ValueError", NoneValue)
        ELSE Returned(Normal(IF signed /\ Head(s) = "-" THEN 0 - magnitude ELSE magnitude,
                             Len(frac)))

\* float(x): TypeError for None, ValueError for text that is no number
Float(cell) ==
    IF cell.t = "None" THEN Raised("TypeError", NoneValue)
    ELSE IF cell.t = "int" THEN Returned(Normal(cell.n, 0))
    ELSE FloatOfStr(cell.s)

MetricDataPoint(value, window_start, window_end) ==
    [value |-> value, window_start |-> window_start, window_end |-> window_end]

----------------------------------------------------------------------------
(* class MetricCompiler                                                    *)

SPECIAL_KEYS ==
    << <<"w", "i", "n", "d", "o", "w", "_", "s", "t", "a", "r", "t">>,
       <<"w", "i", "n", "d", "o", "w", "_", "e", "n", "d">>,
       <<"r", "o", "w", "_", "c", "o", "u", "n", "t">> >>

WINDOW_START == <<"W", "I", "N", "D", "O", "W", "_", "S", "T", "A", "R", "T">>

WINDOW_END == <<"W", "I", "N", "D", "O", "W", "_", "E", "N", "D">>

ROW_COUNT == <<"R", "O", "W", "_", "C", "O", "U", "N", "T">>

days_ago == 0 - 85788

RECURSIVE NatStr(_)
NatStr(n) == IF n < 10 THEN <<Digits[n + 1]>> ELSE Append(NatStr(n \div 10), Digits[(n % 10) + 1])

\* str(n) of an int, as format() writes it
IntStr(n) == IF n < 0 THEN <<"-">> \o NatStr(0 - n) ELSE NatStr(n)

\* the metrics of one column: one per default metric type of its data type
column_metrics(table_name, column) ==
    LET types == default_for(column.data_type)
    IN  Tuple([k \in 1..Len(types) |-> Metric(table_name, column.name, types[k], <<>>)])

\* a plausible slip: the new metrics are added to the ones the instance holds
create_metrics_keeping_old(table_name, cols) ==
    metrics \o Concat(Tuple([c \in 1..Len(cols) |-> column_metrics(table_name, cols[c])]))

\* MetricCompiler._create_metrics(table_name, columns)
create_metrics(table_name, cols) ==
    Concat(Tuple([c \in 1..Len(cols) |-> column_metrics(table_name, cols[c])]))

\* the list [metric.sql() for metric in self.metrics]
metric_fragments(ms) == Tuple([i \in 1..Len(ms) |-> sql(ms[i])])

\* the text build_query returns for the metrics it has just created
build_query_text(mon, ms) ==
    Format(BASE_SQL,
           ("{metric_sql}" :> Join(<<",", "\n">>, metric_fragments(ms)))
           @@ ("{timestamp_field}" :> mon.timestamp_field)
           @@ ("{table}" :> mon.table)
           @@ ("{days_ago}" :> IntStr(days_ago)))

\* a plausible slip: the lookup table is keyed by the column name as written
metric_map_step_case_sensitive(ms, map, i) ==
    LET column_name == ms[i].column_name
        metric_name == Lower(MetricTypeValue(ms[i].metric_type))
        with_column == IF HasKey(map, column_name) THEN map
                       ELSE Put(map, column_name, <<>>)
        inner == Put(Get(with_column, column_name), metric_name, i)
    IN  Put(with_column, column_name, inner)

\* one round of the loop of _metric_map: metric i is entered in the dict
metric_map_step(ms, map, i) ==
    LET column_name == Lower(ms[i].column_name)
        metric_name == Lower(MetricTypeValue(ms[i].metric_type))
        with_column == IF HasKey(map, column_name) THEN map
                       ELSE Put(map, column_name, <<>>)
        inner == Put(Get(with_column, column_name), metric_name, i)
    IN  Put(with_column, column_name, inner)

\* MetricCompiler._metric_map(): column name -> metric name -> Metric
metric_map(ms) ==
    LET step(map, i) == metric_map_step(ms, map, i)
    IN  FoldRange(step, <<>>, 1, Len(ms))

\* try: float(row[alias]) except TypeError: None
coerce(cell) ==
    LET f == Float(cell)
    IN  IF f.raised = "TypeError" THEN Returned(NoneValue) ELSE f

\* a plausible slip: the window bounds are swapped in the data point
data_point_swapped(value, window_start, window_end) ==
    MetricDataPoint(value, window_end, window_start)

\* the MetricDataPoint interpret_results builds for one cell
data_point(value, window_start, window_end) ==
    MetricDataPoint(value, window_start, window_end)

\* a plausible slip: the point replaces the values instead of joining them
append_value_replacing(ms, i, point) ==
    [ms EXCEPT ![i].values = <<point>>]

\* metric.values.append(data_point)
append_value(ms, i, point) ==
    [ms EXCEPT ![i].values = Append(@, point)]

\* the body of the inner loop of interpret_results for key k of a row, on
\* the metrics ms as the points appended so far have left them
interpret_cell(ms, map, row, k) ==
    LET alias_str == row[k][1]
    IN  IF ~Contains(alias_str, SEPARATOR) THEN Returned(ms)
        ELSE LET p == parse_alias(alias_str)
             IN  IF p.raised # "none" THEN Raised(p.raised, ms)
                 ELSE IF \/ ~HasKey(map, p.value[1])
                         \/ ~HasKey(Get(map, p.value[1]), p.value[2])
                 THEN Raised("KeyError", ms)
                 ELSE LET metric == Get(Get(map, p.value[1]), p.value[2])
                          v == coerce(row[k][2])
                          point == data_point(v.value, Get(row, WINDOW_START),
                                              Get(row, WINDOW_END))
                      IN  IF v.raised # "none" THEN Raised(v.raised, ms)
                          ELSE Returned(append_value(ms, metric, point))

\* the body of the outer loop of interpret_results for one row: the window
\* and the row count are read, then every key is gone through
interpret_row(ms, map, row) ==
    IF \E key \in {WINDOW_START, WINDOW_END, ROW_COUNT} : ~HasKey(row, key)
    THEN Raised("KeyError", ms)
    ELSE LET step(acc, k) == IF acc.raised # "none" THEN acc
                             ELSE interpret_cell(acc.value, map, row, k)
         IN  FoldRange(step, Returned(ms), 1, Len(row))

\* the loops of interpret_results over the rows: the metrics as it leaves
\* them, and the exception that ended it, if one did
interpret_rows(ms, map, rows) ==
    LET step(acc, r) == IF acc.raised # "none" THEN acc
                        ELSE interpret_row(acc.value, map, rows[r])
    IN  FoldRange(step, Returned(ms), 1, Len(rows))

\* the list interpret_results returns: the lookup table flattened
flatten(map) ==
    Concat(Tuple([c \in 1..Len(map) |->
                    Tuple([j \in 1..Len(map[c][2]) |-> map[c][2][j][2]])]))

----------------------------------------------------------------------------
(* Inputs.                                                                 *)

Column(name, data_type) == [name |-> name, data_type |-> data_type]

Monitor(table, timestamp_field) == [table |-> table, timestamp_field |-> timestamp_field]

\* the monitors of the runs: table orders by created_at, table users by seen
Monitors ==
    {Monitor(<<"o", "r", "d", "e", "r", "s">>,
             <<"c", "r", "e", "a", "t", "e", "d", "_", "a", "t">>),
     Monitor(<<"u", "s", "e", "r", "s">>, <<"s", "e", "e", "n">>)}

OrdersMonitor == CHOOSE m \in Monitors : m.table[1] = "o"

\* column names of the schemas: plain ones that differ only in letter case,
\* and reserved ones
SchemaNames ==
    {<<"a">>, <<"A">>, SPECIAL_KEYS[3], SPECIAL_KEYS[2]}

SchemaColumns == {Column(n, t) : n \in SchemaNames, t \in ColumnDataType}

\* the columns of the tables whose results are interpreted: a text column a
\* and a numeric column A, equal ignoring letter case
DescribedColumns == {Column(<<"a">>, "STRING"), Column(<<"A">>, "INTEGER")}

\* the tables a reused compiler is given: a text column, a numeric column
\* whose name differs in letter case only, and both
TableSchemas ==
    {<<Column(<<"a">>, "STRING")>>, <<Column(<<"A">>, "INTEGER")>>,
     <<Column(<<"a">>, "STRING"), Column(<<"A">>, "INTEGER")>>}

\* the column lists describe_table may return, of at most MaxCols columns
ColumnLists(cols) == UNION {[1..n -> cols] : n \in 0..MaxCols}

\* the metric cells of a result row: a null, a number as text, other text
Cells == {NoneCell, StrCell(<<"1", ".", "5">>), StrCell(<<"a", "b", "c">>)}

OtherKeyLists ==
    { << <<"a", "_", "_", "c", "o", "m", "p", "l", "e", "t", "e", "n", "e", "s", "s">> >>,
      << <<"A", "_", "_", "N", "U", "M", "E", "R", "I", "C", "_", "M", "I", "N">> >>,
      << <<"a", "_", "_", "c", "o", "m", "p", "l", "e", "t", "e", "n", "e", "s", "s">>,
         <<"A", "_", "_", "c", "o", "m", "p", "l", "e", "t", "e", "n", "e", "s", "s">> >>,
      << <<"a", "_", "_", "b", "_", "_", "m", "a", "x", "_", "l", "e", "n", "g", "t", "h">> >>,
      << <<"_", "_", "c", "o", "m", "p", "l", "e", "t", "e", "n", "e", "s", "s">> >> }

\* the metric keys of the result sets: aliases as compiled and as a driver
\* that folds case returns them, and aliases no build of these tables compiles
KeyLists ==
    { << <<"a", "_", "_", "n", "u", "m", "e", "r", "i", "c", "_", "m", "i", "n">>,
         <<"a", "_", "_", "m", "a", "x", "_", "l", "e", "n", "g", "t", "h">> >> } \cup OtherKeyLists

\* row r of a result set: its hourly window, its row count, and its metric cells
Row(r, keys, cells) ==
    << <<WINDOW_START, IntCell(r - 1)>>, <<WINDOW_END, IntCell(r)>>,
       <<ROW_COUNT, IntCell(10)>> >>
    \o Tuple([k \in 1..Len(keys) |-> <<keys[k], cells[k]>>])

ResultSet(rows) == [executed |-> TRUE, rows |-> rows]

NoResults == [executed |-> FALSE, rows |-> <<>>]

\* the result sets a driver may return: at most MaxRows rows, one per window
\* in ascending order, all with the same keys, the metric cells of a row alike
ResultSets ==
    UNION { { ResultSet(Tuple([r \in 1..n |->
                                 Row(r, keys, [k \in 1..Len(keys) |-> cells[r]])])) :
                cells \in [1..n -> Cells] } :
            n \in 0..MaxRows, keys \in KeyLists }

\* the rows a driver returns for the query compiled last: one key per compiled
\* alias, the metric cells of a row alike
CompiledResultSets ==
    UNION { { ResultSet(Tuple([r \in 1..n |->
                 Row(r, Tuple([i \in 1..Len(metrics) |-> alias(metrics[i])]),
                     [i \in 1..Len(metrics) |-> cells[r]])])) :
                cells \in [1..n -> Cells] } :
            n \in 0..MaxRows }

\* the characters of the column names and aliases given to the alias codec
NameChars == {"a", "A", "_"}

Names == UNION {[1..n -> NameChars] : n \in 0..MaxNameLen}

AliasChars == {"a", "_"}

Aliases == UNION {[1..n -> AliasChars] : n \in 0..MaxAliasLen}

----------------------------------------------------------------------------
(* State and operations.                                                   *)

NoCall == [op |-> "none", raised |-> "none", returned |-> <<>>]

NotParsed == [raised |-> "pending", value |-> <<>>]

Init ==
    /\ metrics = <<>>
    /\ query = <<>>
    /\ columns = <<>>
    /\ monitor = Monitor(<<>>, <<>>)
    /\ results = NoResults
    /\ outcome = NoCall
    /\ ninterp = 0
    /\ first_values = <<>>
    /\ column_in = <<>>
    /\ type_in = "none"
    /\ alias_in = <<>>
    /\ parsed = NotParsed

\* compiler.build_query(monitor, columns)
BuildQuery(mon, cols) ==
    /\ metrics' = create_metrics(mon.table, cols)
    /\ query' = build_query_text(mon, metrics')
    /\ columns' = cols
    /\ monitor' = mon
    /\ outcome' = [op |-> "build_query", raised |-> "none", returned |-> <<>>]
    /\ ninterp' = 0
    /\ first_values' = <<>>
    /\ UNCHANGED results
    /\ UNCHANGED codec_vars

\* driver.execute_sql(compiled_sql): the driver returns the result set res
ExecuteSql(res) ==
    /\ outcome.op # "none"
    /\ ~results.executed
    /\ results' = res
    /\ UNCHANGED <<metrics, query, columns, monitor, outcome, ninterp, first_values>>
    /\ UNCHANGED codec_vars

\* compiler.interpret_results(results)
InterpretResults ==
    /\ results.executed
    /\ ninterp < MaxInterp
    /\ \E map \in {metric_map(metrics)} :
       \E done \in {interpret_rows(metrics, map, results.rows)} :
           /\ metrics' = done.value
           /\ outcome' = [op |-> "interpret_results", raised |-> done.raised,
                          returned |-> IF done.raised = "none" THEN flatten(map) ELSE <<>>]
           /\ first_values' = IF ninterp = 0
                              THEN Tuple([i \in 1..Len(metrics) |-> done.value[i].values])
                              ELSE first_values
    /\ ninterp' = ninterp + 1
    /\ UNCHANGED <<query, columns, monitor, results>>
    /\ UNCHANGED codec_vars

\* compiler_cls(): a new instance, nothing built, run or interpreted
NewCompiler ==
    /\ metrics' = <<>>
    /\ query' = <<>>
    /\ columns' = <<>>
    /\ monitor' = Monitor(<<>>, <<>>)
    /\ results' = NoResults
    /\ outcome' = NoCall
    /\ ninterp' = 0
    /\ first_values' = <<>>

\* Metric(column_name=c, metric_type=k).alias
EncodeAlias(c, k) ==
    /\ column_in' = c
    /\ type_in' = k
    /\ alias_in' = alias(Metric(<<>>, c, k, <<>>))
    /\ parsed' = NotParsed
    /\ NewCompiler

\* an alias that comes from a result row
GivenAlias(a) ==
    /\ column_in' = <<>>
    /\ type_in' = "none"
    /\ alias_in' = a
    /\ parsed' = NotParsed
    /\ NewCompiler

\* Metric.parse_alias(alias)
ParseAlias ==
    /\ parsed = NotParsed
    /\ parsed' = parse_alias(alias_in)
    /\ UNCHANGED <<column_in, type_in, alias_in>>
    /\ UNCHANGED compiler_vars

\* TableMetricsMonitor._execute_sql on a table with the text column a, the
\* driver returning one row that holds the alias under test
ExecuteMonitor ==
    /\ parsed # NotParsed
    /\ outcome = NoCall
    /\ \E cols \in {<<Column(<<"a">>, "STRING")>>} :
       \E built \in {create_metrics(OrdersMonitor.table, cols)} :
       \E res \in {ResultSet(<<Row(1, <<alias_in>>, <<StrCell(<<"1", ".", "5">>)>>)>>)} :
       \E map \in {metric_map(built)} :
       \E done \in {interpret_rows(built, map, res.rows)} :
           /\ metrics' = done.value
           /\ query' = build_query_text(OrdersMonitor, built)
           /\ columns' = cols
           /\ monitor' = OrdersMonitor
           /\ results' = res
           /\ outcome' = [op |-> "interpret_results", raised |-> done.raised,
                          returned |-> IF done.raised = "none" THEN flatten(map) ELSE <<>>]
           /\ first_values' = Tuple([i \in 1..Len(built) |-> done.value[i].values])
    /\ ninterp' = 1
    /\ UNCHANGED codec_vars

\* one compiler instance: a query is built, the driver runs it, its rows are
\* interpreted, once or again
Next ==
    \/ outcome.op = "none" /\ \E cols \in ColumnLists(DescribedColumns) :
                                 BuildQuery(OrdersMonitor, cols)
    \/ ~results.executed /\ \E res \in ResultSets : ExecuteSql(res)
    \/ InterpretResults

Spec == Init /\ [][Next]_vars

\* one compiler instance used for query after query
NextReuse ==
    \/ \E mon \in Monitors, cols \in TableSchemas : BuildQuery(mon, cols)
    \/ ~results.executed /\ \E res \in CompiledResultSets : ExecuteSql(res)
    \/ InterpretResults

SpecReuse == Init /\ [][NextReuse]_vars

\* query building alone, over the schemas
NextBuild ==
    outcome.op = "none" /\ \E mon \in Monitors, cols \in ColumnLists(SchemaColumns) :
                              BuildQuery(mon, cols)

SpecBuild == Init /\ [][NextBuild]_vars

\* the alias codec alone
NextAlias ==
    \/ type_in = "none" /\ alias_in = <<>> /\ \E c \in Names, k \in MetricType :
                                                 EncodeAlias(c, k)
    \/ type_in = "none" /\ alias_in = <<>> /\ \E a \in Aliases : GivenAlias(a)
    \/ ParseAlias
    \/ ExecuteMonitor

SpecAlias == Init /\ [][NextAlias]_vars

----------------------------------------------------------------------------
(* Vocabulary of the properties.                                           *)

Interpreted == outcome.op = "interpret_results"

Completed == Interpreted /\ outcome.raised = "none"

Built == outcome.op = "build_query"

ReservedNames == {SPECIAL_KEYS[i] : i \in 1..Len(SPECIAL_KEYS)}

\* how often sep occurs in s, overlapping occurrences counted
CountOf(s, sep) == Cardinality({i \in 1..Len(s) : s[i] = sep[1] /\ OccursAt(s, sep, i)})

\* the key under which the lookup table holds a metric
LookupKey(m) == <<Lower(m.column_name), Lower(MetricTypeValue(m.metric_type))>>

\* a later metric of the list has the lookup key of metric i
Shadowed(ms, i) == \E j \in (i + 1)..Len(ms) : LookupKey(ms[j]) = LookupKey(ms[i])

\* where the separator occurs in s, overlapping occurrences included
SeparatorsOf(s) == {i \in 1..Len(s) : OccursAt(s, SEPARATOR, i)}

\* where the separator occurs first in s
FirstSeparator(s) == CHOOSE i \in SeparatorsOf(s) : \A j \in SeparatorsOf(s) : i <= j

\* s holds the separator, and no occurrence lies clear of the first one
OneSeparator(s) ==
    /\ SeparatorsOf(s) # {}
    /\ \A j \in SeparatorsOf(s) : j <= FirstSeparator(s) + 1

\* the one separator of the row key cuts it into the lookup key of m, letter
\* case ignored
Decodes(key, m) ==
    /\ Len(key) = Len(m.column_name) + 2 + Len(MetricTypeValue(m.metric_type))
    /\ OneSeparator(key)
    /\ FirstSeparator(key) = Len(m.column_name) + 1
    /\ Lower(key) = LookupKey(m)[1] \o SEPARATOR \o LookupKey(m)[2]

\* the number a cell stands for, absent for a null cell
NumberOf(cell) == IF cell.t = "None" THEN NoneValue ELSE Float(cell).value

PointOf(row, k) ==
    [value |-> NumberOf(row[k][2]), window_start |-> Get(row, WINDOW_START),
     window_end |-> Get(row, WINDOW_END)]

\* one point per row whose keys include the alias of metric i, in row order
PointsByAlias(ms, i, rows) ==
    Concat(Tuple([r \in 1..Len(rows) |->
        Concat(Tuple([k \in 1..Len(rows[r]) |->
            IF rows[r][k][1] = alias(ms[i]) THEN <<PointOf(rows[r], k)>> ELSE <<>>]))]))

\* one point per row key that decodes to the lookup key of metric i, in row
\* order and, within a row, in key order
PointsByLookupKey(ms, i, rows) ==
    Concat(Tuple([r \in 1..Len(rows) |->
        Concat(Tuple([k \in 1..Len(rows[r]) |->
            IF Decodes(rows[r][k][1], ms[i]) THEN <<PointOf(rows[r], k)>> ELSE <<>>]))]))

\* how many metrics the column data type has by default
DefaultCount(data_type) ==
    IF data_type = "STRING" THEN 12 ELSE IF data_type = "INTEGER" THEN 8 ELSE 0

MetricCount(cols) ==
    LET step(acc, c) == acc + DefaultCount(cols[c].data_type)
    IN  FoldRange(step, 0, 1, Len(cols))

NonReserved(cols) == \A c \in 1..Len(cols) : cols[c].name \notin ReservedNames

DistinctNames(cols) ==
    \A c, d \in 1..Len(cols) : c # d => cols[c].name # cols[d].name

\* the metric fragments of a query text: they are joined by a comma and a
\* line end, which the text holds nowhere else, and each holds " AS "
FragmentCount(q) ==
    IF CountOf(q, <<" ", "A", "S", " ">>) = 0 THEN 0 ELSE CountOf(q, <<",", "\n">>) + 1

FixedColumns(q) ==
    \A n \in ReservedNames : CountOf(q, <<" ", "a", "s", " ">> \o n \o <<",">>) = 1

DistinctAliases(ms) ==
    \A i, j \in 1..Len(ms) : i # j => alias(ms[i]) # alias(ms[j])

----------------------------------------------------------------------------
(* C1: interpret_results never raises because a cell cannot be coerced to  *)
(* a number, be it a null or text that is no number; a point with the      *)
(* row's window and no value is appended to the matching metric instead.   *)
C1_CoercionNeverFatal ==
    Interpreted =>
        /\ outcome.raised \notin {"ValueError", "TypeError"}
        /\ ninterp = 1 /\ outcome.raised = "none" =>
             \A r \in 1..Len(results.rows) : \A k \in 1..Len(results.rows[r]) :
                \A i \in 1..Len(metrics) :
                    /\ Decodes(results.rows[r][k][1], metrics[i])
                    /\ ~Shadowed(metrics, i)
                    /\ Float(results.rows[r][k][2]).raised # "none"
                    => \E p \in 1..Len(metrics[i].values) :
                          metrics[i].values[p] =
                              [value |-> NoneValue,
                               window_start |-> Get(results.rows[r], WINDOW_START),
                               window_end |-> Get(results.rows[r], WINDOW_END)]

(* C2: build_query discards the reserved columns: a column named           *)
(* window_start, window_end or row_count gives no Metric and no fragment   *)
(* of the SQL, whatever its data type.                                     *)
C2_ReservedDiscarded ==
    Built =>
        /\ \A i \in 1..Len(metrics) : metrics[i].column_name \notin ReservedNames
        /\ \A n \in ReservedNames :
              CountOf(query, <<" ", "A", "S", " ">> \o n \o SEPARATOR) = 0

(* C3, as stated: for a column name c without "__", parse_alias of the     *)
(* alias of Metric(c, k) returns exactly (c, k.value), letter case and     *)
(* underscores at the end of c included.                                   *)
C3_RoundTripExact ==
    type_in # "none" /\ parsed # NotParsed /\ ~Contains(column_in, SEPARATOR)
    => parsed = Returned(<<column_in, MetricTypeValue(type_in)>>)

(* C3, amended: for a column name c without "__" that does not end in an   *)
(* underscore, parse_alias of the alias of Metric(c, k) returns            *)
(* (c lower-cased, k.value).                                               *)
C3_RoundTripLowered ==
    /\ type_in # "none"
    /\ parsed # NotParsed
    /\ ~Contains(column_in, SEPARATOR)
    /\ column_in # <<>> => column_in[Len(column_in)] # "_"
    => parsed = Returned(<<Lower(column_in), MetricTypeValue(type_in)>>)

C3_Witness ==
    /\ type_in = "NUMERIC_MAX"
    /\ column_in = <<"A", "_", "a">>
    /\ parsed = Returned(<<<<"a", "_", "a">>, MetricTypeValue("NUMERIC_MAX")>>)

(* C4, as stated: after one build and one interpret that completes, every  *)
(* metric has exactly one point per row whose keys include its alias, in   *)
(* row order, with the row's window and the cell's number; a metric whose  *)
(* alias is in no row has none.                                            *)
C4_PointsByAlias ==
    Completed /\ ninterp = 1 =>
        \A i \in 1..Len(metrics) :
            metrics[i].values = PointsByAlias(metrics, i, results.rows)

(* C4, amended: after one build and one interpret that completes, a metric *)
(* that no later metric shadows (none has its column name, letter case     *)
(* ignored, and its kind) has exactly one point per row key that decodes   *)
(* to its lower-cased column and kind, in row order and key order, with    *)
(* the row's window and the cell's number (absent for a null cell); a      *)
(* shadowed metric has no point; WINDOW_START, WINDOW_END and ROW_COUNT    *)
(* give no point.                                                          *)
C4_PointsByLookupKey ==
    Completed /\ ninterp = 1 =>
        \A i \in 1..Len(metrics) :
            metrics[i].values =
                IF Shadowed(metrics, i) THEN <<>>
                ELSE PointsByLookupKey(metrics, i, results.rows)

C4_Witness ==
    /\ Completed
    /\ ninterp = 1
    /\ Len(results.rows) = 2
    /\ \E i, j \in 1..Len(metrics) :
          /\ i < j
          /\ LookupKey(metrics[i]) = LookupKey(metrics[j])
          /\ HasKey(results.rows[1], alias(metrics[i]))
          /\ metrics[i].values = <<>>
          /\ Len(metrics[j].values) = 4
          /\ metrics[j].values[1].value = [t |-> "float", m |-> 15, e |-> 1]
          /\ metrics[j].values[4].window_start = IntCell(1)

(* C5, as stated: for non-reserved columns build_query makes 12 metric     *)
(* fragments per STRING column, 8 per INTEGER column and none for another  *)
(* type, beside the three fixed columns, and no two aliases are equal.     *)
C5_CountAndDistinct ==
    Built /\ NonReserved(columns) =>
        /\ Len(metrics) = MetricCount(columns)
        /\ FragmentCount(query) = MetricCount(columns)
        /\ FixedColumns(query)
        /\ DistinctAliases(metrics)

(* C5, amended: the counts hold for every list of non-reserved columns;    *)
(* no two aliases are equal when no two columns of the list have the same  *)
(* name.                                                                   *)
C5_CountAndDistinctNames ==
    Built /\ NonReserved(columns) =>
        /\ Len(metrics) = MetricCount(columns)
        /\ FragmentCount(query) = MetricCount(columns)
        /\ FixedColumns(query)
        /\ DistinctNames(columns) => DistinctAliases(metrics)

C5_Witness ==
    /\ Built
    /\ NonReserved(columns)
    /\ Len(columns) = 2
    /\ columns[1].data_type = "STRING"
    /\ columns[2].data_type = "INTEGER"
    /\ columns[1].name # columns[2].name
    /\ Len(metrics) = 20
    /\ FragmentCount(query) = 20

(* C6: two interprets of the same rows after a build leave every metric    *)
(* with the points of one interpret twice over, the second lot after the   *)
(* first.                                                                  *)
C6_TwiceDoubles ==
    ninterp = 2 =>
        /\ Len(first_values) = Len(metrics)
        /\ \A i \in 1..Len(metrics) :
              metrics[i].values = first_values[i] \o first_values[i]

C6_Witness ==
    /\ ninterp = 2
    /\ Completed
    /\ \E i \in 1..Len(metrics) :
          /\ Len(first_values[i]) = 2
          /\ Len(metrics[i].values) = 4
          /\ metrics[i].values[3] = metrics[i].values[1]
          /\ metrics[i].values[1] # metrics[i].values[2]

(* C7, as stated: parse_alias returns a pair only when the split on "__"   *)
(* gives exactly two parts that are both non-empty, and raises otherwise.  *)
C7_TwoNonEmptyParts ==
    parsed # NotParsed =>
        (parsed.raised = "none" <=>
            /\ OneSeparator(alias_in)
            /\ FirstSeparator(alias_in) > 1
            /\ FirstSeparator(alias_in) + 1 < Len(alias_in))

(* C7, amended: parse_alias returns a pair exactly when the split on "__"  *)
(* gives two parts, empty or not, and raises the parse error otherwise;    *)
(* inside interpret_results that error ends the call, for a key that holds *)
(* the separator.                                                          *)
C7_TwoParts ==
    parsed # NotParsed =>
        /\ parsed.raised = "none" <=> OneSeparator(alias_in)
        /\ parsed.raised \in {"none", "Exception"}
        /\ Interpreted /\ Contains(alias_in, SEPARATOR) /\ parsed.raised = "Exception" =>
              /\ outcome.raised = "Exception"
              /\ outcome.returned = <<>>
              /\ \A i \in 1..Len(metrics) : metrics[i].values = <<>>
        /\ Interpreted /\ ~Contains(alias_in, SEPARATOR) => outcome.raised = "none"

C7_Witness ==
    /\ alias_in = <<"a", "_", "_", "a", "_", "_", "a">>
    /\ parsed.raised = "Exception"
    /\ Interpreted
    /\ outcome.raised = "Exception"

(* C8: the fragment of a NUMERIC_MEAN metric is AVG(col), of a NUMERIC_MIN *)
(* metric MIN(col), of a NUMERIC_MAX metric MAX(col), each followed by     *)
(* " AS " and the alias.                                                   *)
C8_OwnTemplate ==
    Built =>
        \A i \in 1..Len(metrics) :
            LET fn == CASE metrics[i].metric_type = "NUMERIC_MEAN" -> <<"A", "V", "G">>
                        [] metrics[i].metric_type = "NUMERIC_MIN" -> <<"M", "I", "N">>
                        [] metrics[i].metric_type = "NUMERIC_MAX" -> <<"M", "A", "X">>
                        [] OTHER -> <<>>
            IN  fn # <<>> =>
                    CountOf(query, fn \o <<"(">> \o metrics[i].column_name
                                      \o <<")", " ", "A", "S", " ">> \o alias(metrics[i])) >= 1

(* C9: right after build_query the instance holds the metrics of that      *)
(* build alone, each without points, whatever was built or interpreted     *)
(* before; rows are then resolved against that table only: an interpret    *)
(* completes only if every key with a separator decodes to a metric of the *)
(* last build, and a key that decodes to none raises the lookup error.     *)
C9_BuildOverwrites ==
    /\ Built =>
          /\ Len(metrics) = MetricCount(columns)
          /\ \A i \in 1..Len(metrics) :
                /\ metrics[i].values = <<>>
                /\ metrics[i].table_name = monitor.table
                /\ \E c \in 1..Len(columns) :
                      /\ metrics[i].column_name = columns[c].name
                      /\ \E k \in 1..Len(default_for(columns[c].data_type)) :
                            metrics[i].metric_type = default_for(columns[c].data_type)[k]
    /\ Interpreted =>
          /\ Len(metrics) = MetricCount(columns)
          /\ outcome.raised = "none" =>
                \A r \in 1..Len(results.rows) : \A k \in 1..Len(results.rows[r]) :
                    Contains(results.rows[r][k][1], SEPARATOR) =>
                        \E i \in 1..Len(metrics) : Decodes(results.rows[r][k][1], metrics[i])
          /\ /\ results.rows # <<>>
             /\ \A k \in 1..Len(results.rows[1]) :
                   /\ Float(results.rows[1][k][2]).raised # "ValueError"
                   /\ Contains(results.rows[1][k][1], SEPARATOR)
                         => OneSeparator(results.rows[1][k][1])
             /\ \E k \in 1..Len(results.rows[1]) :
                   /\ Contains(results.rows[1][k][1], SEPARATOR)
                   /\ \A i \in 1..Len(metrics) : ~Decodes(results.rows[1][k][1], metrics[i])
             => outcome.raised = "KeyError"

C9_Witness ==
    /\ Interpreted
    /\ outcome.raised = "KeyError"
    /\ columns = <<Column(<<"a">>, "STRING")>>
    /\ Len(results.rows) = 2
    /\ HasKey(results.rows[1], alias(Metric(<<>>, <<"A">>, "NUMERIC_MIN", <<>>)))
    /\ \E i \in 1..Len(metrics) : Len(metrics[i].values) = 1

====
